---- MODULE Spec2Model ----
(***************************************************************************)
(* PyContract: proxies for calling Ethereum contract functions over        *)
(* JSON-RPC.  Three handle classes are modelled:                           *)
(*   Contract        (src/contract/__init__.py)  relayed, response-checked *)
(*   LocalContract   (src/contract.py)           relayed                   *)
(*   PublicContract  (src/contract.py)           self-signed               *)
(* Python strings the code inspects character by character (addresses,     *)
(* hex results, interface names) are sequences of one-character strings.   *)
(* The Translator, the RPC client, the signer and the address derivation   *)
(* are external: their results are inputs or opaque tagged values.         *)
(* Interface names are drawn from names that do not shadow an attribute    *)
(* the methods of src/contract.py look up on the handle.                   *)
(***************************************************************************)
EXTENDS Integers, Sequences, FiniteSets, TLC

VARIABLES handle, ctor, inv

vars == <<handle, ctor, inv>>

----------------------------------------------------------------------------
(* Bounds of the model *)

\* the longest interface description handed to a constructor
MaxInterfaceLen == 2
\* the number of callers invoking one self-signed handle concurrently
NumCallers == 2

----------------------------------------------------------------------------
(* Python values *)

\* None, told apart from every string of characters
None == <<"<None>">>

Rep(c, n) == [i \in 1..n |-> c]

HexChars == <<"0","1","2","3","4","5","6","7","8","9","a","b","c","d","e","f">>
UpperHex == <<"A","B","C","D","E","F">>

IsHexChar(c) ==
    \/ \E i \in 1..16 : HexChars[i] = c
    \/ \E i \in 1..6 : UpperHex[i] = c

HexVal(c) ==
    IF \E i \in 1..16 : HexChars[i] = c
    THEN (CHOOSE i \in 1..16 : HexChars[i] = c) - 1
    ELSE (CHOOSE i \in 1..6 : UpperHex[i] = c) + 9

Marker == <<"0", "x">>

\* str.lstrip('0x'): drops every leading character that is '0' or 'x'
RECURSIVE LStrip0x(_)
LStrip0x(s) ==
    IF s # << >> /\ Head(s) \in {"0", "x"} THEN LStrip0x(Tail(s)) ELSE s

\* str.decode('hex') succeeds on an even number of hex digits only
HexDecodable(s) ==
    /\ Len(s) % 2 = 0
    /\ \A i \in 1..Len(s) : IsHexChar(s[i])

\* str.decode('hex'): the bytes
HexDecode(s) ==
    [i \in 1..(Len(s) \div 2) |-> 16 * HexVal(s[2*i - 1]) + HexVal(s[2*i])]

\* the digits of hex(n), most significant first
RECURSIVE HexDigits(_)
HexDigits(n) ==
    IF n < 16 THEN <<HexChars[n + 1]>>
    ELSE Append(HexDigits(n \div 16), HexChars[(n % 16) + 1])

\* hex(n) of Python 2: a long carries a trailing 'L'
PyHex(n, isLong) == Marker \o HexDigits(n) \o (IF isLong THEN <<"L">> ELSE << >>)

\* int(s, 16) on a string of hex digits
RECURSIVE IntBase16(_)
IntBase16(s) ==
    IF s = << >> THEN 0
    ELSE 16 * IntBase16(SubSeq(s, 1, Len(s) - 1)) + HexVal(s[Len(s)])

\* hx[2:]
DropTwo(hx) == SubSeq(hx, 3, Len(hx))

\* int(hx[2:], 16) raises ValueError on an empty or non-hex string
Hex2IntFails(hx) ==
    \/ DropTwo(hx) = << >>
    \/ \E i \in 1..Len(DropTwo(hx)) : ~IsHexChar(DropTwo(hx)[i])

_hex2int(hx) == IntBase16(DropTwo(hx))

----------------------------------------------------------------------------
(* Module constants *)

\* {40} of the ETH_ADDR pattern
AddrDigits == 40
\* MAX_GAS = 0x4712388 of src/contract.py
MAX_GAS == 74523528
\* MAX_GAS = int(math.pi*1.5*1e6) of src/contract/__init__.py
MAX_GAS_pkg == 4712388
\* gas_price = 20 * denoms.shannon, kept in shannon
GasPriceShannon == 20
\* a private key is 32 bytes
KeyLen == 32

\* re.match('^0x[0-9a-fA-F]{40}$', s): '$' also matches before a final newline
ETH_ADDR(s) ==
    /\ Len(s) \in {AddrDigits + 2, AddrDigits + 3}
    /\ s[1] = "0"
    /\ s[2] = "x"
    /\ \A i \in 3..(AddrDigits + 2) : IsHexChar(s[i])
    /\ Len(s) = AddrDigits + 3 => s[AddrDigits + 3] = "\n"

----------------------------------------------------------------------------
(* Constructor inputs *)

Str_foo == <<"f","o","o">>
Str_bar == <<"b","a","r">>
Str_fooSig == <<"f","o","o","(","u",")">>
Str_send == <<"_","s","e","n","d">>

FuncNames == {Str_foo, Str_bar, Str_fooSig, Str_send}

InterfaceItems ==
    [type : {"function"}, name : FuncNames] \cup [type : {"event"}, name : {Str_foo}]

Interfaces == UNION {[1..n -> InterfaceItems] : n \in 0..MaxInterfaceLen}

Addr_plain == Marker \o Rep("a", AddrDigits)
Addr_zero1 == Marker \o <<"0">> \o Rep("a", AddrDigits - 1)
Addr_zero2 == Marker \o <<"0", "0">> \o Rep("a", AddrDigits - 2)
Addr_upper == Marker \o Rep("A", AddrDigits)
Addr_bare == Rep("a", AddrDigits)
Addr_short == Marker \o Rep("a", AddrDigits - 1)
Addr_long == Marker \o Rep("a", AddrDigits + 1)
Addr_nonhex == Marker \o Rep("g", AddrDigits)
Addr_newline == Marker \o Rep("a", AddrDigits) \o <<"\n">>

AddressInputs ==
    {Addr_plain, Addr_zero1, Addr_zero2, Addr_upper, Addr_bare, Addr_short,
     Addr_long, Addr_nonhex, Addr_newline}

Sender_plain == Marker \o Rep("b", AddrDigits)
Sender_bare == Rep("b", AddrDigits)

SenderInputs == {Sender_plain, Sender_bare}

\* a gas override; the default of the module is the other input
GasInputs == {21000}

\* private keys: byte strings, ints and longs
KeyInputs ==
    {[kind |-> "str", bytes |-> Rep(1, KeyLen)],
     [kind |-> "str", bytes |-> Rep(1, KeyLen - 1)],
     [kind |-> "int", val |-> 16, long |-> FALSE],
     [kind |-> "int", val |-> 5, long |-> FALSE],
     [kind |-> "int", val |-> 16, long |-> TRUE],
     [kind |-> "other"]}

----------------------------------------------------------------------------
(* Handles *)

NoHandle == [status |-> "none"]

Raised(cls, exc, field, value) ==
    [status |-> "raised", cls |-> cls, exc |-> exc, field |-> field, value |-> value]

\* the message of the ContractError for a bad address names the field and
\* echoes the value
AddressError(cls, field, value) == Raised(cls, "ContractError", field, value)

\* name.split('(')[0]
RECURSIVE SplitParen(_)
SplitParen(name) ==
    IF name = << >> \/ Head(name) = "(" THEN << >>
    ELSE <<Head(name)>> \o SplitParen(Tail(name))

\* what hasattr finds on a Contract instance before the binding loop: the
\* attributes set by __init__ and the methods of the class
ContractAttrs ==
    {<<"t","r","a","n","s","l","a","t","o","r">>,
     <<"r","p","c","_","c","l","i","e","n","t">>,
     <<"c","o","m","m","o","n","_","p","a","r","a","m","s">>,
     <<"_","c","a","l","l">>,
     <<"_","s","e","n","d">>,
     <<"_","c","h","e","c","k","_","r","e","s","p","o","n","s","e">>}

\* the binding loop of Contract.__init__ from item i on; bound is the set of
\* proxies set so far; raised tells that 'Polymorphism not supported!' was raised
RECURSIVE BindChecked(_, _, _)
BindChecked(interface, i, bound) ==
    IF i > Len(interface) THEN [raised |-> FALSE, bound |-> bound]
    ELSE IF interface[i].type # "function"
    THEN BindChecked(interface, i + 1, bound)
    ELSE IF SplitParen(interface[i].name) \in ContractAttrs \cup bound
    THEN [raised |-> TRUE, bound |-> bound]
    ELSE BindChecked(interface, i + 1, bound \cup {SplitParen(interface[i].name)})

\* the binding loop of BaseContract.__init__: setattr replaces an earlier
\* proxy of the same name
BindUnchecked(interface) ==
    {interface[i].name : i \in {j \in 1..Len(interface) : interface[j].type = "function"}}

\* Contract.__init__
ContractInit(address, interface, sender, gas) ==
    IF ~ETH_ADDR(address) THEN AddressError("Contract", "contract", address)
    ELSE IF sender # None /\ ~ETH_ADDR(sender)
    THEN AddressError("Contract", "sender", sender)
    ELSE IF BindChecked(interface, 1, {}).raised
    THEN Raised("Contract", "ContractError", "polymorphism", None)
    ELSE [status |-> "ok", cls |-> "Contract",
          common_params |->
              IF sender = None
              THEN [k \in {"to", "gas"} |->
                       IF k = "to" THEN address ELSE PyHex(gas, FALSE)]
              ELSE [k \in {"to", "gas", "from"} |->
                       IF k = "to" THEN address
                       ELSE IF k = "gas" THEN PyHex(gas, FALSE) ELSE sender],
          bound |-> BindChecked(interface, 1, {}).bound]

\* BaseContract.__init__
BaseInit(cls, address, interface, sender, gas) ==
    IF ~ETH_ADDR(address) THEN AddressError(cls, "contract", address)
    ELSE IF sender = None THEN Raised(cls, "TypeError", "sender", sender)
    ELSE IF ~ETH_ADDR(sender) THEN AddressError(cls, "sender", sender)
    ELSE [status |-> "ok", cls |-> cls,
          address |-> address,
          sender |-> sender,
          default_gas |-> gas,
          default_gas_hex |-> PyHex(gas, FALSE),
          bound |-> BindUnchecked(interface)]

\* LocalContract.__init__
LocalInit(address, interface, sender, gas) ==
    BaseInit("LocalContract", address, interface, sender, gas)

\* hex(private_key)[2:]
KeyHex(key) == DropTwo(PyHex(key.val, key.long))

\* str.rjust(32, '\x00') of the decoded key
RJust(bytes, n) ==
    IF Len(bytes) >= n THEN bytes ELSE Rep(0, n - Len(bytes)) \o bytes

\* privtoaddr(private_key).encode('hex'): 40 hex digits, from the library
DerivedSender(private_key) == Marker \o Rep("c", AddrDigits)

\* PublicContract.__init__
PublicInit(address, interface, key, gas) ==
    IF key.kind = "int" /\ ~HexDecodable(KeyHex(key))
    THEN Raised("PublicContract", "TypeError", "private_key", key)
    ELSE IF key.kind # "int" /\ (key.kind # "str" \/ Len(key.bytes) # KeyLen)
    THEN Raised("PublicContract", "ContractError", "private_key", key)
    ELSE LET private_key == IF key.kind = "int"
                            THEN RJust(HexDecode(KeyHex(key)), KeyLen)
                            ELSE key.bytes
             sender == DerivedSender(private_key)
             base == BaseInit("PublicContract", address, interface, sender, gas)
         IN IF base.status # "ok" THEN base
            ELSE IF ~HexDecodable(LStrip0x(address))
            THEN Raised("PublicContract", "TypeError", "address_bin", address)
            ELSE [status |-> "ok", cls |-> "PublicContract",
                  address |-> base.address,
                  sender |-> base.sender,
                  default_gas |-> base.default_gas,
                  default_gas_hex |-> base.default_gas_hex,
                  bound |-> base.bound,
                  address_bin |-> HexDecode(LStrip0x(address)),
                  private_key |-> private_key,
                  gas_price |-> [shannon |-> GasPriceShannon]]

----------------------------------------------------------------------------
(* Invocation inputs and the collaborators *)

\* argument lists; every function of the interface takes one uint256
ArgInputs == {<<1>>, <<2>>, << >>}

\* translator.encode_function_call raises on an arity or type mismatch
TranslatorRejects(func_name, args) == Len(args) # 1

\* translator.encode_function_call(func_name, args): the call data
Encoded(func_name, args) == [selector |-> func_name, args |-> args]

\* translator.decode(func_name, raw_result)
Decoded(func_name, raw_result) == [type |-> "decoded", fn |-> func_name, v |-> raw_result]

\* '0x{}'.format(data.encode('hex'))
HexOfData(data) == [hex0x |-> data]

ErrorPayload == [code |-> -32000, message |-> "boom"]

\* a JSON-RPC response: a dict with any of the keys error and result
Response(keys, result) ==
    [k \in keys |-> IF k = "error" THEN ErrorPayload ELSE result]

\* the RPC client raising instead of answering
TransportFailure == [raise |-> "TransportError"]

ResponsesWith(results) ==
    {Response({"result"}, r) : r \in results}
        \cup {Response({"error"}, << >>), Response({}, << >>), TransportFailure}
        \cup {Response({"error", "result"}, CHOOSE r \in results : TRUE)}

\* results of eth_call: 0x10, 0x01 and 0x0010
CallResults == {Marker \o <<"1","0">>, Marker \o <<"0","1">>, Marker \o <<"0","0","1","0">>}

\* results of eth_sendTransaction and eth_sendRawTransaction: a hash
TxHashes == {Marker \o <<"b","e","e","f">>}

\* results of eth_getTransactionCount: 0x7, 0x10 and 0x
NonceResults == {Marker \o <<"7">>, Marker \o <<"1","0">>, Marker}

----------------------------------------------------------------------------
(* One invocation of a bound operation *)

NoValue == [type |-> "none"]

Idle ==
    [pc |-> "idle", fn |-> << >>, args |-> << >>, call |-> FALSE, data |-> NoValue,
     steps |-> << >>, log |-> << >>, resps |-> << >>,
     outcome |-> "none", exc |-> "none", ret |-> NoValue, raw_tx |-> NoValue]

Started(func_name, args, call) ==
    [Idle EXCEPT !.pc = "proxy", !.fn = func_name, !.args = args, !.call = call]

Step(iv, name) == [iv EXCEPT !.steps = Append(@, name)]

Raise(iv, exc, payload) ==
    [iv EXCEPT !.pc = "done", !.outcome = "raise", !.exc = exc, !.ret = payload]

Return(iv, value) ==
    [iv EXCEPT !.pc = "done", !.outcome = "return", !.ret = value]

\* rpc_client.<method>(*params): the request leaves and the caller blocks
Request(iv, method, params) ==
    [iv EXCEPT !.pc = method,
               !.steps = Append(@, method),
               !.log = Append(@, [method |-> method, params |-> params])]

Received(iv, resp) == [iv EXCEPT !.resps = Append(@, resp)]

\* tx = self.common_params.copy(); tx['data'] = ...
ContractTx(h, data) ==
    [k \in DOMAIN h.common_params \cup {"data"} |->
        IF k = "data" THEN HexOfData(data) ELSE h.common_params[k]]

\* BaseTx with the 'to' and 'from' addresses exchanged
BaseTx_Swapped(h, data) ==
    [k \in {"to", "from", "data", "gas"} |->
        CASE k = "to" -> h.sender
          [] k = "from" -> h.address
          [] k = "data" -> data
          [] k = "gas" -> h.default_gas_hex]

\* the tx dict of _call_dispatcher and of LocalContract._send_dispatcher
BaseTx(h, data) ==
    [k \in {"to", "from", "data", "gas"} |->
        CASE k = "to" -> h.address
          [] k = "from" -> h.sender
          [] k = "data" -> data
          [] k = "gas" -> h.default_gas_hex]

\* ContractProxy sending the request before the arguments are encoded
ContractProxy_SendFirst(h, func_name, args, call) ==
    LET iv == Started(func_name, args, call)
        tx == ContractTx(h, Encoded(func_name, args))
        sent == IF call
                THEN Request(iv, "eth_call", <<tx, "latest">>)
                ELSE Request(iv, "eth_sendTransaction", <<tx>>)
    IN IF TranslatorRejects(func_name, args)
       THEN Raise(Step(sent, "encode"), "EncodingError", NoValue)
       ELSE [Step(sent, "encode") EXCEPT !.data = Encoded(func_name, args)]

\* proxy of Contract.__init__, up to its first RPC request
ContractProxy(h, func_name, args, call) ==
    LET iv == Step(Started(func_name, args, call), "encode")
    IN IF TranslatorRejects(func_name, args)
       THEN Raise(iv, "EncodingError", NoValue)
       ELSE LET tx == ContractTx(h, Encoded(func_name, args))
                iv2 == [iv EXCEPT !.data = Encoded(func_name, args)]
            IN IF call
               THEN Request(iv2, "eth_call", <<tx, "latest">>)
               ELSE Request(iv2, "eth_sendTransaction", <<tx>>)

\* proxy of BaseContract.__init__, up to its first RPC request
BaseProxy(h, func_name, args, call) ==
    LET iv == Step(Started(func_name, args, call), "encode")
    IN IF TranslatorRejects(func_name, args)
       THEN Raise(iv, "EncodingError", NoValue)
       ELSE LET data == Encoded(func_name, args)
                iv2 == [iv EXCEPT !.data = data]
            IN IF call
               THEN Request(iv2, "eth_call", <<BaseTx(h, data), "latest">>)
               ELSE IF h.cls = "LocalContract"
               THEN Request(iv2, "eth_sendTransaction", <<BaseTx(h, data)>>)
               ELSE Request(iv2, "eth_getTransactionCount", <<h.sender>>)

Proxy(h, func_name, args, call) ==
    IF h.cls = "Contract"
    THEN ContractProxy(h, func_name, args, call)
    ELSE BaseProxy(h, func_name, args, call)

\* response['result'].lstrip('0x').decode('hex'), then translator.decode
DecodeResult(iv, response) ==
    IF "result" \notin DOMAIN response THEN Raise(iv, "KeyError", NoValue)
    ELSE IF ~HexDecodable(LStrip0x(response["result"]))
    THEN Raise(iv, "TypeError", NoValue)
    ELSE Return(Step(iv, "decode"),
                Decoded(iv.fn, HexDecode(LStrip0x(response["result"]))))

\* Contract._check_response
CheckRaises(response) == "error" \in DOMAIN response

\* Contract._call after eth_call has answered
ContractCallReturns(iv, response) ==
    IF CheckRaises(response)
    THEN Raise(Step(iv, "check_response"), "ContractError",
               [type |-> "dict", v |-> response])
    ELSE DecodeResult(Step(iv, "check_response"), response)

\* Contract._send after eth_sendTransaction has answered
ContractSendReturns(iv, response) ==
    IF CheckRaises(response)
    THEN Raise(Step(iv, "check_response"), "ContractError",
               [type |-> "dict", v |-> response])
    ELSE IF "result" \notin DOMAIN response
    THEN Raise(Step(iv, "check_response"), "KeyError", NoValue)
    ELSE Return(Step(iv, "check_response"), [type |-> "str", v |-> response["result"]])

\* BaseContract._call_dispatcher after eth_call has answered
BaseCallReturns(iv, response) == DecodeResult(iv, response)

\* LocalContract._send_dispatcher after eth_sendTransaction has answered
LocalSendReturns(iv, response) == Return(iv, [type |-> "dict", v |-> response])

\* Transaction(nonce, gasprice, startgas, to, value, data)
Transaction(nonce, gasprice, startgas, to, value, data) ==
    [nonce |-> nonce, gasprice |-> gasprice, startgas |-> startgas,
     to |-> to, value |-> value, data |-> data]

\* tx.sign(private_key)
Sign(tx, private_key) == [tx |-> tx, signed_by |-> private_key]

\* '0x' + rlp.encode(signed).encode('hex')
Serialize(signed) == [type |-> "raw", rlp0x |-> signed]

\* what getattr(self, 'eth_sendRawTransaction') finds: the handle sets
\* rpc_client, and no interface name of the model is eth_sendRawTransaction
HandleHasSendRaw(h) == FALSE

\* PublicContract._send_dispatcher after eth_getTransactionCount has answered
PublicNonceReturns(h, iv, response) ==
    IF "result" \notin DOMAIN response THEN Raise(iv, "KeyError", NoValue)
    ELSE IF Hex2IntFails(response["result"]) THEN Raise(iv, "ValueError", NoValue)
    ELSE LET nonce == _hex2int(response["result"])
             tx == Transaction(nonce, h.gas_price, h.default_gas, h.address_bin,
                               0, iv.data)
             raw_tx == Serialize(Sign(tx, h.private_key))
             iv2 == [Step(Step(Step(iv, "build"), "sign"), "serialize")
                        EXCEPT !.raw_tx = raw_tx]
         IN IF HandleHasSendRaw(h)
            THEN Request(iv2, "eth_sendRawTransaction", <<raw_tx>>)
            ELSE Raise(iv2, "AttributeError", NoValue)

\* the rest of the invocation once the pending RPC request has answered
Answered(h, iv, response) ==
    IF "raise" \in DOMAIN response
    THEN Raise(Received(iv, response), "TransportError", NoValue)
    ELSE LET got == Received(iv, response)
         IN CASE iv.pc = "eth_call" /\ h.cls = "Contract" ->
                     ContractCallReturns(got, response)
              [] iv.pc = "eth_call" /\ h.cls # "Contract" ->
                     BaseCallReturns(got, response)
              [] iv.pc = "eth_sendTransaction" /\ h.cls = "Contract" ->
                     ContractSendReturns(got, response)
              [] iv.pc = "eth_sendTransaction" /\ h.cls # "Contract" ->
                     LocalSendReturns(got, response)
              [] iv.pc = "eth_getTransactionCount" ->
                     PublicNonceReturns(h, got, response)

----------------------------------------------------------------------------
(* The state machine *)

NoCtor == [cls |-> "none"]

Callers == DOMAIN inv

Init ==
    /\ handle = NoHandle
    /\ ctor = NoCtor
    /\ inv = [c \in 1..1 |-> Idle]

\* Contract(address, interface, rpc_address, sender, gas)
ConstructContract ==
    /\ handle.status = "none"
    /\ \E address \in AddressInputs, interface \in Interfaces,
          sender \in SenderInputs \cup {None}, gas \in GasInputs \cup {MAX_GAS_pkg} :
          /\ handle' = ContractInit(address, interface, sender, gas)
          /\ ctor' = [cls |-> "Contract", address |-> address, interface |-> interface,
                      sender |-> sender, gas |-> gas]
    /\ UNCHANGED inv

\* LocalContract(address, interface, rpc_client, sender, gas)
ConstructLocal ==
    /\ handle.status = "none"
    /\ \E address \in AddressInputs, interface \in Interfaces,
          sender \in SenderInputs \cup {None}, gas \in GasInputs \cup {MAX_GAS} :
          /\ handle' = LocalInit(address, interface, sender, gas)
          /\ ctor' = [cls |-> "LocalContract", address |-> address,
                      interface |-> interface, sender |-> sender, gas |-> gas]
    /\ UNCHANGED inv

\* PublicContract(address, interface, rpc_client, private_key, gas)
ConstructPublic ==
    /\ handle.status = "none"
    /\ \E address \in AddressInputs, interface \in Interfaces,
          key \in KeyInputs, gas \in GasInputs \cup {MAX_GAS} :
          /\ handle' = PublicInit(address, interface, key, gas)
          /\ ctor' = [cls |-> "PublicContract", address |-> address,
                      interface |-> interface, sender |-> None, gas |-> gas]
    /\ UNCHANGED inv

\* a caller invokes handle.<func_name>(*args, call=call)
Invoke(c) ==
    /\ handle.status = "ok"
    /\ inv[c].pc \in {"idle", "done"}
    /\ \E func_name \in handle.bound, args \in ArgInputs, call \in BOOLEAN :
          inv' = [inv EXCEPT ![c] = Proxy(handle, func_name, args, call)]
    /\ UNCHANGED <<handle, ctor>>

\* eth_call answers
EthCallReturns(c) ==
    /\ inv[c].pc = "eth_call"
    /\ \E response \in ResponsesWith(CallResults) :
          inv' = [inv EXCEPT ![c] = Answered(handle, inv[c], response)]
    /\ UNCHANGED <<handle, ctor>>

\* eth_sendTransaction answers
EthSendTransactionReturns(c) ==
    /\ inv[c].pc = "eth_sendTransaction"
    /\ \E response \in ResponsesWith(TxHashes) :
          inv' = [inv EXCEPT ![c] = Answered(handle, inv[c], response)]
    /\ UNCHANGED <<handle, ctor>>

\* eth_getTransactionCount answers
EthGetTransactionCountReturns(c) ==
    /\ inv[c].pc = "eth_getTransactionCount"
    /\ \E response \in ResponsesWith(NonceResults) :
          inv' = [inv EXCEPT ![c] = Answered(handle, inv[c], response)]
    /\ UNCHANGED <<handle, ctor>>

Next ==
    \/ ConstructContract
    \/ ConstructLocal
    \/ ConstructPublic
    \/ \E c \in Callers : Invoke(c)
    \/ \E c \in Callers : EthCallReturns(c)
    \/ \E c \in Callers : EthSendTransactionReturns(c)
    \/ \E c \in Callers : EthGetTransactionCountReturns(c)

Spec == Init /\ [][Next]_vars

\* several callers share one self-signed handle
InitRace ==
    /\ \E address \in {Addr_plain, Addr_zero2}, gas \in GasInputs \cup {MAX_GAS} :
          /\ handle = PublicInit(address, <<[type |-> "function", name |-> Str_foo]>>,
                                 [kind |-> "str", bytes |-> Rep(1, KeyLen)], gas)
          /\ ctor = [cls |-> "PublicContract", address |-> address,
                     interface |-> <<[type |-> "function", name |-> Str_foo]>>,
                     sender |-> None, gas |-> gas]
    /\ inv = [c \in 1..NumCallers |-> Idle]

NextRace ==
    \/ \E c \in Callers : Invoke(c)
    \/ \E c \in Callers : EthCallReturns(c)
    \/ \E c \in Callers : EthGetTransactionCountReturns(c)

SpecRace == InitRace /\ [][NextRace]_vars

----------------------------------------------------------------------------
(* Vocabulary of the properties *)

HasError(response) == "error" \in DOMAIN response

\* a response the JSON-RPC interface calls a success: a result and no error
IsSuccess(response) == DOMAIN response = {"result"}

Methods(iv) == [i \in 1..Len(iv.log) |-> iv.log[i].method]

\* the node answered every request of the invocation with a usable success
NodeAccepted(iv) ==
    /\ Len(iv.resps) = Len(iv.log)
    /\ \A i \in 1..Len(iv.resps) :
          /\ IsSuccess(iv.resps[i])
          /\ iv.log[i].method = "eth_getTransactionCount"
                => ~Hex2IntFails(iv.resps[i]["result"])

SelfSigned == handle.status = "ok" /\ handle.cls = "PublicContract"

FunctionEntries(interface) == {i \in 1..Len(interface) : interface[i].type = "function"}

\* two function entries of the interface are bound under one name
HasDuplicate(interface) ==
    \E i, j \in FunctionEntries(interface) :
        i # j /\ SplitParen(interface[i].name) = SplitParen(interface[j].name)

\* the string without its leading marker, when it has one
Unmarked(s) == IF Len(s) >= 2 /\ SubSeq(s, 1, 2) = Marker THEN DropTwo(s) ELSE s

\* exactly 40 hex characters after removing the marker
FortyHex(s) ==
    /\ Len(Unmarked(s)) = AddrDigits
    /\ \A i \in 1..Len(Unmarked(s)) : IsHexChar(Unmarked(s)[i])

Constructed == handle.status # "none"

\* construction did not stop on an input other than an address
OnlyAddressesDecide ==
    /\ Constructed
    /\ handle.status = "raised" => handle.field \in {"contract", "sender", "address_bin"}
    /\ ~(ctor.cls = "LocalContract" /\ ctor.sender = None)
    /\ ~HasDuplicate(ctor.interface)
    /\ \A i \in FunctionEntries(ctor.interface) : ctor.interface[i].name # Str_send

----------------------------------------------------------------------------
(* C1 *)

\* C1: every response that carries an error field makes the invocation fail
\* with the node error (ContractError) carrying that response, in query and
\* transact mode and on every handle type, and the decode step is not
\* reached.
C1_ErrorResponseRaisesNodeError ==
    \A c \in Callers : \A i \in 1..Len(inv[c].resps) :
        HasError(inv[c].resps[i]) =>
            /\ inv[c].pc = "done"
            /\ inv[c].outcome = "raise"
            /\ inv[c].exc = "ContractError"
            /\ inv[c].ret.type = "dict"
            /\ inv[c].ret.v = inv[c].resps[i]
            /\ \A k \in 1..Len(inv[c].steps) : inv[c].steps[k] # "decode"

----------------------------------------------------------------------------
(* C2 *)

SendOrder ==
    <<"encode", "eth_getTransactionCount", "build", "sign", "serialize",
      "eth_sendRawTransaction">>

\* C2: on a self-signed handle a transact-mode invocation whose nonce fetch
\* succeeded has gone through nonce fetch, build, sign, serialize and
\* broadcast in that order, the broadcast carrying the serialized signed
\* transaction built from that nonce, the gas price, the gas limit, the
\* target, zero value and the encoded data.
C2_SelfSignedSendOrder ==
    \A c \in Callers :
        ( /\ SelfSigned
          /\ ~inv[c].call
          /\ Len(inv[c].resps) >= 1
          /\ IsSuccess(inv[c].resps[1])
          /\ ~Hex2IntFails(inv[c].resps[1]["result"]) )
        => /\ Len(inv[c].steps) >= Len(SendOrder)
           /\ SubSeq(inv[c].steps, 1, Len(SendOrder)) = SendOrder
           /\ Len(inv[c].log) >= 2
           /\ inv[c].log[2].method = "eth_sendRawTransaction"
           /\ inv[c].log[2].params =
                 <<Serialize(Sign(Transaction(_hex2int(inv[c].resps[1]["result"]),
                                              [shannon |-> GasPriceShannon],
                                              ctor.gas, handle.address_bin, 0,
                                              Encoded(inv[c].fn, inv[c].args)),
                                  handle.private_key))>>

----------------------------------------------------------------------------
(* C3 *)

\* construction did not stop on an address or on the private key, and no
\* function of the interface is named like an attribute of the handle
InterfaceDecides ==
    /\ Constructed
    /\ handle.status = "raised" => handle.field = "polymorphism"
    /\ \A i \in FunctionEntries(ctor.interface) :
          SplitParen(ctor.interface[i].name) \notin ContractAttrs

\* C3: an interface in which two function entries share a name makes
\* construction fail with the duplicate-function error; an interface with
\* unique names (none of them the name of an attribute the handle already
\* has) constructs, with exactly one bound operation per function entry.
C3_DuplicateNamesRejected ==
    InterfaceDecides =>
        IF HasDuplicate(ctor.interface)
        THEN handle.status = "raised"
        ELSE /\ handle.status = "ok"
             /\ Cardinality(handle.bound) = Cardinality(FunctionEntries(ctor.interface))

----------------------------------------------------------------------------
(* C4 *)

\* C4, for the addresses on which the claim and the pattern's documentation
\* agree: a contract address of '0x' and 40 hex characters (with a sender of
\* that form, when one is given) constructs, and an address that is not
\* exactly 40 hex characters after removing the marker fails construction
\* with the validation error naming it.
C4_AddressValidation ==
    OnlyAddressesDecide =>
        /\ ( /\ ETH_ADDR(ctor.address) /\ FortyHex(ctor.address)
             /\ ctor.sender # None => (ETH_ADDR(ctor.sender) /\ FortyHex(ctor.sender)) )
           => handle.status = "ok"
        /\ ~FortyHex(ctor.address)
           => /\ handle.status = "raised"
              /\ handle.exc = "ContractError"
              /\ handle.field = "contract"

----------------------------------------------------------------------------
(* C5 *)

\* the nonce fetch of the caller's transact-mode invocation returned result
FetchedNonce(c, result) ==
    /\ ~inv[c].call
    /\ Len(inv[c].resps) >= 1
    /\ IsSuccess(inv[c].resps[1])
    /\ inv[c].resps[1]["result"] = result
    /\ ~Hex2IntFails(result)

\* the caller's invocation broadcast a raw transaction with that nonce
BroadcastWithNonce(c, nonce) ==
    \E i \in 1..Len(inv[c].log) :
        /\ inv[c].log[i].method = "eth_sendRawTransaction"
        /\ inv[c].log[i].params[1].rlp0x.tx.nonce = nonce

\* C5: when the node returns the same transaction count to two concurrent
\* transact-mode invocations on one self-signed handle, both broadcast a
\* transaction, and both transactions carry that nonce.
C5_SameNonceBroadcastTwice ==
    \A c1, c2 \in Callers : \A result \in NonceResults :
        (c1 # c2 /\ FetchedNonce(c1, result) /\ FetchedNonce(c2, result))
        => /\ BroadcastWithNonce(c1, _hex2int(result))
           /\ BroadcastWithNonce(c2, _hex2int(result))

\* two nonce fetches of one handle are in flight at once: no lock serializes
\* the send path
C5_BothFetching ==
    \E c1, c2 \in Callers :
        /\ c1 # c2
        /\ inv[c1].pc = "eth_getTransactionCount"
        /\ inv[c2].pc = "eth_getTransactionCount"

----------------------------------------------------------------------------
(* C6 *)

\* the RPC requests the claim gives an invocation of that mode
ExpectedMethods(cls, call) ==
    IF call THEN <<"eth_call">>
    ELSE IF cls = "PublicContract"
    THEN <<"eth_getTransactionCount", "eth_sendRawTransaction">>
    ELSE <<"eth_sendTransaction">>

\* C6: an invocation whose arguments the Translator accepted and whose
\* requests the node all answered with a success has issued exactly one
\* eth_call in query mode, exactly one eth_sendTransaction in transact mode
\* on a relayed handle, and a nonce fetch followed by a raw broadcast in
\* transact mode on a self-signed handle, before it ended.
C6_RoundTripsPerMode ==
    \A c \in Callers :
        (inv[c].pc = "done" /\ inv[c].log # << >> /\ NodeAccepted(inv[c]))
        => Methods(inv[c]) = ExpectedMethods(handle.cls, inv[c].call)

----------------------------------------------------------------------------
(* C7 *)

\* C7: an invocation the node accepted returns, in transact mode, the hash
\* of the response's result field, and in query mode the Translator's
\* decoding of the bytes of the result.
C7_ReturnsHashOrDecodedValue ==
    \A c \in Callers :
        (inv[c].pc = "done" /\ inv[c].log # << >> /\ NodeAccepted(inv[c]))
        => /\ inv[c].outcome = "return"
           /\ IF inv[c].call
              THEN inv[c].ret =
                      Decoded(inv[c].fn,
                              HexDecode(DropTwo(inv[c].resps[Len(inv[c].resps)]["result"])))
              ELSE /\ inv[c].ret.type = "str"
                   /\ inv[c].ret.v = inv[c].resps[Len(inv[c].resps)]["result"]

----------------------------------------------------------------------------
(* C8 *)

\* C8: an invocation whose arguments the Translator rejects ends with the
\* encoding error, and an invocation that ends with the encoding error has
\* issued no RPC request (no query, no send, no nonce fetch).
C8_EncodingErrorBeforeAnyRequest ==
    \A c \in Callers :
        /\ (inv[c].pc # "idle" /\ TranslatorRejects(inv[c].fn, inv[c].args))
           => /\ inv[c].pc = "done"
              /\ inv[c].exc = "EncodingError"
        /\ inv[c].exc = "EncodingError"
           => /\ inv[c].log = << >>
              /\ inv[c].resps = << >>

\* a transact-mode invocation on a self-signed handle ended with the encoding error
C8_Witness ==
    \E c \in Callers :
        /\ SelfSigned
        /\ inv[c].pc = "done"
        /\ ~inv[c].call
        /\ inv[c].exc = "EncodingError"

----------------------------------------------------------------------------
(* C9 *)

\* the response is an error payload or a failure of the round trip
Failed(response) == HasError(response) \/ "raise" \in DOMAIN response

\* C9: once a round trip of an invocation fails or returns an error payload,
\* the invocation has ended with an error and has issued no request after
\* the failed one.
C9_FailureEndsInvocationWithError ==
    \A c \in Callers : \A i \in 1..Len(inv[c].resps) :
        Failed(inv[c].resps[i]) =>
            /\ inv[c].pc = "done"
            /\ inv[c].outcome = "raise"
            /\ Len(inv[c].log) = i

----------------------------------------------------------------------------
(* C10 *)

\* the TransactionIntent the handle's configuration and the invocation's own
\* arguments give
IntentMatches(tx, iv) ==
    /\ tx["to"] = ctor.address
    /\ tx["gas"] = PyHex(ctor.gas, FALSE)
    /\ IF ctor.cls = "Contract"
       THEN /\ tx["data"] = HexOfData(Encoded(iv.fn, iv.args))
            /\ IF ctor.sender = None
               THEN "from" \notin DOMAIN tx
               ELSE tx["from"] = ctor.sender
       ELSE /\ tx["data"] = Encoded(iv.fn, iv.args)
            /\ tx["from"] = IF ctor.cls = "LocalContract"
                            THEN ctor.sender
                            ELSE DerivedSender(handle.private_key)

IntentsCarryConfig ==
    \A c \in Callers : \A i \in 1..Len(inv[c].log) :
        inv[c].log[i].method \in {"eth_call", "eth_sendTransaction"}
            => IntentMatches(inv[c].log[i].params[1], inv[c])

\* C10: no step of an invocation changes a constructed handle, and every
\* TransactionIntent handed to the RPC client carries the address, sender
\* (when configured) and gas given at construction and the data encoded from
\* the arguments of its own invocation.
C10_ConfigurationIsFrame ==
    [][ /\ handle.status = "ok" => (handle' = handle /\ ctor' = ctor)
        /\ IntentsCarryConfig' ]_vars

\* a relayed handle with a configured sender has handed a send intent to the
\* RPC client and the node has answered
C10_Witness ==
    \E c \in Callers :
        /\ handle.status = "ok"
        /\ handle.cls = "LocalContract"
        /\ inv[c].pc = "done"
        /\ Len(inv[c].log) = 1
        /\ inv[c].log[1].method = "eth_sendTransaction"

====
